---- MODULE Spec2Model ----
(***************************************************************************)
(* Model of cmd/skill/app.go of shulganew/alice-skill: the webhook handler *)
(* (one goroutine per request) and the flushMessages goroutine that        *)
(* receives queued messages from msgChan and writes them to the store in   *)
(* bulk on every ticker firing.                                            *)
(***************************************************************************)
EXTENDS Naturals, Integers, Sequences, FiniteSets, TLC

\* ---------------------------------------------------------------- bounds
\* Capacity of msgChan, scaled down from the 1024 of newApp.
ChanCap == 2
\* Number of readings of time.Now() at app.go:83, i.e. of messages built.
MaxMsgs == 4

\* ------------------------------------------------- constants of the code
StatusOK == 200
StatusBadRequest == 400
StatusMethodNotAllowed == 405
StatusUnprocessableEntity == 422
StatusInternalServerError == 500
\* No status written yet (the zero value before any WriteHeader / Write).
NoStatus == 0

TypeSimpleUtterance == "SimpleUtterance"
KwSend == "Otprav"
KwRead == "Prochitaj"
KwRegister == "Zaregistriruj"

\* Reply texts are sequences of words, so that formatted texts embed values.
TextSent == <<"message sent">>
TextNoNew == <<"no new messages for you">>
TextNoSuch == <<"no such message">>
TextTaken == <<"name already taken">>
NoText == <<>>

ErrNil == "nil"
ErrConflict == "data conflict"
ErrWrappedConflict == "wrapped: data conflict"
ErrOther == "store failure"

\* ------------------------------------------------------ input universes
Handlers == {"h1", "h2"}
Users == {"u1", "u2"}
\* Callers that issue send commands.
Senders == {"u1"}
Usernames == {"bob"}
Payloads == {"hi"}
Indexes == 0 .. 2
RecipientIDs == {"id-bob"}
Timezones == {"", "Europe/Moscow", "Mars/Olympus"}

\* Commands are sequences of words; the first word is the keyword.
Commands ==
    {<<KwSend, n, p>> : n \in Usernames, p \in Payloads}
        \cup {<<KwRead, i>> : i \in Indexes}
        \cup {<<KwRegister, n>> : n \in Usernames}
        \cup {<<"sudo">>}

\* store.Message
Message(id, sender, recepient, time, payload) ==
    [ID |-> id, Sender |-> sender, Recepient |-> recepient, Time |-> time,
     Payload |-> payload]

\* What the store holds for the callers: results ListMessages may return and
\* the message GetMessage returns for an identifier.
StoredMessage(id) == Message(id, "u-from", "u-to", 0, "stored")
ListResults ==
    {<<>>, <<StoredMessage(7)>>, <<StoredMessage(7), StoredMessage(5)>>}

\* models.Request as decoded from the body, with the method of the HTTP request
\* and whether the body decodes.
Request(method, decodes, type, command, user, new, tz) ==
    [method |-> method, decodes |-> decodes, type |-> type, command |-> command,
     user |-> user, new |-> new, timezone |-> tz]

NoRequest == Request("", FALSE, "", <<>>, "", FALSE, "")

Requests ==
    {Request(m, TRUE, TypeSimpleUtterance, <<"sudo">>, "u1", FALSE, "") :
        m \in {"GET", "PUT"}}
        \cup {Request("POST", FALSE, "", <<>>, "", FALSE, "")}
        \cup {Request("POST", TRUE, "idunno", c, "u1", FALSE, "") : c \in Commands}
        \cup {Request("POST", TRUE, TypeSimpleUtterance, c, u, FALSE, "") :
                c \in {k \in Commands : k[1] = KwSend}, u \in Senders}
        \cup {Request("POST", TRUE, TypeSimpleUtterance, c, u, FALSE, "") :
                c \in {k \in Commands : k[1] # KwSend}, u \in Users}
        \cup {Request("POST", TRUE, TypeSimpleUtterance, <<"sudo">>, "u1", TRUE, tz) :
                tz \in Timezones}

VARIABLES
    msgChan,    \* a.msgChan: the buffered channel, oldest message first
    ticker,     \* number of firings buffered in ticker.C (capacity 1)
    messages,   \* flushMessages' local slice
    wpc,        \* where flushMessages is: "select" or "saving"
    saveArg,    \* argument of the latest SaveMessages call
    saveRes,    \* its outcome: "none", "inflight", "ok", "err"
    saved,      \* history: concatenation of the arguments of successful calls
    enqLog,     \* history: messages in the order they entered msgChan
    clock,      \* time.Now()
    pc,         \* per handler: where webhook is
    req,        \* per handler: the request being served
    resp,       \* per handler: status and text written
    loc,        \* per handler: locals of webhook and its store calls
    marks       \* history: positions in enqLog / receive counts at worker events

vars == <<msgChan, ticker, messages, wpc, saveArg, saveRes, saved, enqLog, clock,
          pc, req, resp, loc, marks>>

workerVars == <<messages, wpc, saveArg, saveRes, saved>>
handlerVars == <<pc, req, resp, loc>>

\* ------------------------------------------------------------ helpers
\* strings.HasPrefix on the command text
HasPrefix(command, keyword) == Len(command) >= 1 /\ command[1] = keyword

\* parser.ParseSendCommand: (username, message)
ParseSendCommand(command) == <<command[2], command[3]>>
\* parser.ParseReadCommand: the 0-based index
ParseReadCommand(command) == command[2]
\* parser.ParseRegisterCommand: the desired username
ParseRegisterCommand(command) == command[2]

\* errors.Is(err, target)
ErrorsIs(err, target) ==
    \/ err = target
    \/ target = ErrConflict /\ err = ErrWrappedConflict

\* time.LoadLocation(name) returns no error
LoadLocationOK(name) == name \in {"", "Europe/Moscow"}

\* fmt.Sprintf of the read reply, app.go:118
TextMessage(m) == <<"Message from", m.Sender, ToString(m.Time), m.Payload>>
\* fmt.Sprintf of the count reply, app.go:154
TextCount(n) == <<"You have", ToString(n), "new messages">>
\* fmt.Sprintf of the registration reply, app.go:137
TextRegistered(username) == <<"Registered as", username>>
\* Hours the clock of a location is ahead of UTC, time.Now().In(tz)
UTCOffset(tz) == IF tz = "Europe/Moscow" THEN 3 ELSE 0

\* fmt.Sprintf of the greeting, app.go:172
TextGreeting(tz, text) ==
    <<"Exact time", ToString((clock + UTCOffset(tz)) % 24), "hours",
      ToString(clock % 60), "minutes">> \o text

NoLoc ==
    [calls |-> <<>>, rets |-> <<>>, recipientID |-> "", built |-> <<>>,
     sent |-> <<>>, messages |-> <<>>, messageID |-> 0]

Response(status, text) == [status |-> status, text |-> text]

\* The first store call of the branch of the switch the command selects.
FirstCall(command) ==
    IF HasPrefix(command, KwSend) THEN "FindRecipient"
    ELSE IF HasPrefix(command, KwRead) THEN "ListMessages"
    ELSE IF HasPrefix(command, KwRegister) THEN "RegisterUser"
    ELSE "ListMessagesDefault"

\* The store operation a program counter value names.
StoreOp(at) == IF at = "ListMessagesDefault" THEN "ListMessages" ELSE at

Finished(h) == pc[h] \in {"done", "panic"}

\* Ends the request of h with a status and a text.
Reply(h, status, text) ==
    /\ pc' = [pc EXCEPT ![h] = "done"]
    /\ resp' = [resp EXCEPT ![h] = Response(status, text)]

Init ==
    /\ msgChan = <<>>
    /\ ticker = 0
    /\ messages = <<>>
    /\ wpc = "select"
    /\ saveArg = <<>>
    /\ saveRes = "none"
    /\ saved = <<>>
    /\ enqLog = <<>>
    /\ clock = 1
    /\ pc = [h \in Handlers |-> "idle"]
    /\ req = [h \in Handlers |-> NoRequest]
    /\ resp = [h \in Handlers |-> Response(NoStatus, NoText)]
    /\ loc = [h \in Handlers |-> NoLoc]
    /\ marks = [firedAt |-> 0, recvAtFire |-> 0, flushAt |-> 0, recvCount |-> 0,
                okAt |-> 0, prev |-> "none", last |-> "start"]

\* ------------------------------------------------------------ webhook
\* Variant of WebhookStart without the check of the request type.
WebhookStartNoTypeCheck(h, r) ==
    /\ pc[h] = "idle" \/ Finished(h)
    /\ req' = [req EXCEPT ![h] = r]
    /\ IF r.method # "POST"
       THEN /\ Reply(h, StatusMethodNotAllowed, NoText)
            /\ loc' = [loc EXCEPT ![h] = NoLoc]
       ELSE IF ~r.decodes
       THEN /\ Reply(h, StatusInternalServerError, NoText)
            /\ loc' = [loc EXCEPT ![h] = NoLoc]
       ELSE /\ pc' = [pc EXCEPT ![h] = FirstCall(r.command)]
            /\ resp' = [resp EXCEPT ![h] = Response(NoStatus, NoText)]
            /\ loc' = [loc EXCEPT ![h] =
                         [NoLoc EXCEPT !.calls = <<StoreOp(FirstCall(r.command))>>]]
    /\ UNCHANGED <<msgChan, ticker, enqLog, clock, marks>>
    /\ UNCHANGED workerVars

\* A request arrives and runs to its first store call or to its rejection.
WebhookStart(h, r) ==
    /\ pc[h] = "idle" \/ Finished(h)
    /\ req' = [req EXCEPT ![h] = r]
    /\ IF r.method # "POST"
       THEN /\ Reply(h, StatusMethodNotAllowed, NoText)
            /\ loc' = [loc EXCEPT ![h] = NoLoc]
       ELSE IF ~r.decodes
       THEN /\ Reply(h, StatusInternalServerError, NoText)
            /\ loc' = [loc EXCEPT ![h] = NoLoc]
       ELSE IF r.type # TypeSimpleUtterance
       THEN /\ Reply(h, StatusUnprocessableEntity, NoText)
            /\ loc' = [loc EXCEPT ![h] = NoLoc]
       ELSE /\ pc' = [pc EXCEPT ![h] = FirstCall(r.command)]
            /\ resp' = [resp EXCEPT ![h] = Response(NoStatus, NoText)]
            /\ loc' = [loc EXCEPT ![h] =
                         [NoLoc EXCEPT !.calls = <<StoreOp(FirstCall(r.command))>>]]
    /\ UNCHANGED <<msgChan, ticker, enqLog, clock, marks>>
    /\ UNCHANGED workerVars

\* Variant of WebhookFindRecipient that puts the username, not the resolved
\* identifier, into the message.
WebhookFindRecipientByName(h, recipientID, err) ==
    /\ pc[h] = "FindRecipient"
    /\ IF err # ErrNil
       THEN /\ Reply(h, StatusInternalServerError, NoText)
            /\ loc' = [loc EXCEPT ![h].rets = Append(@, err)]
            /\ UNCHANGED clock
       ELSE /\ clock <= MaxMsgs
            /\ loc' = [loc EXCEPT
                         ![h].rets = Append(@, err),
                         ![h].recipientID = recipientID,
                         ![h].built =
                             <<Message(0, req[h].user,
                                       ParseSendCommand(req[h].command)[1], clock,
                                       ParseSendCommand(req[h].command)[2])>>]
            /\ clock' = clock + 1
            /\ pc' = [pc EXCEPT ![h] = "send"]
            /\ UNCHANGED resp
    /\ UNCHANGED <<msgChan, ticker, enqLog, req, marks>>
    /\ UNCHANGED workerVars

\* Variant of WebhookFindRecipient that does not return on an error.
WebhookFindRecipientIgnoreErr(h, recipientID, err) ==
    /\ pc[h] = "FindRecipient"
    /\ clock <= MaxMsgs
    /\ loc' = [loc EXCEPT
                 ![h].rets = Append(@, err),
                 ![h].recipientID = recipientID,
                 ![h].built =
                     <<Message(0, req[h].user, recipientID, clock,
                               ParseSendCommand(req[h].command)[2])>>]
    /\ clock' = clock + 1
    /\ pc' = [pc EXCEPT ![h] = "send"]
    /\ UNCHANGED resp
    /\ UNCHANGED <<msgChan, ticker, enqLog, req, marks>>
    /\ UNCHANGED workerVars

\* FindRecipient returns; on success the message is built.
WebhookFindRecipient(h, recipientID, err) ==
    /\ pc[h] = "FindRecipient"
    /\ IF err # ErrNil
       THEN /\ Reply(h, StatusInternalServerError, NoText)
            /\ loc' = [loc EXCEPT ![h].rets = Append(@, err)]
            /\ UNCHANGED clock
       ELSE /\ clock <= MaxMsgs
            /\ loc' = [loc EXCEPT
                         ![h].rets = Append(@, err),
                         ![h].recipientID = recipientID,
                         ![h].built =
                             <<Message(0, req[h].user, recipientID, clock,
                                       ParseSendCommand(req[h].command)[2])>>]
            /\ clock' = clock + 1
            /\ pc' = [pc EXCEPT ![h] = "send"]
            /\ UNCHANGED resp
    /\ UNCHANGED <<msgChan, ticker, enqLog, req, marks>>
    /\ UNCHANGED workerVars

\* Variant of WebhookSend for a channel made without a buffer: the send needs
\* flushMessages to be waiting in its select.
WebhookSendUnbuffered(h) ==
    /\ pc[h] = "send"
    /\ Len(msgChan) < ChanCap
    /\ wpc = "select"
    /\ msgChan' = Append(msgChan, loc[h].built[1])
    /\ enqLog' = Append(enqLog, loc[h].built[1])
    /\ loc' = [loc EXCEPT ![h].sent = Append(@, loc[h].built[1])]
    /\ Reply(h, StatusOK, TextSent)
    /\ UNCHANGED <<ticker, clock, req, marks>>
    /\ UNCHANGED workerVars

\* The channel send a.msgChan <- msg: enabled while the buffer has room.
WebhookSend(h) ==
    /\ pc[h] = "send"
    /\ Len(msgChan) < ChanCap
    /\ msgChan' = Append(msgChan, loc[h].built[1])
    /\ enqLog' = Append(enqLog, loc[h].built[1])
    /\ loc' = [loc EXCEPT ![h].sent = Append(@, loc[h].built[1])]
    /\ Reply(h, StatusOK, TextSent)
    /\ UNCHANGED <<ticker, clock, req, marks>>
    /\ UNCHANGED workerVars

\* ListMessages of the read branch returns.
WebhookListMessages(h, list, err) ==
    /\ pc[h] = "ListMessages"
    /\ LET messageIndex == ParseReadCommand(req[h].command) IN
       IF err # ErrNil
       THEN /\ Reply(h, StatusInternalServerError, NoText)
            /\ loc' = [loc EXCEPT ![h].rets = Append(@, err)]
       ELSE IF Len(list) < messageIndex
       THEN /\ Reply(h, StatusOK, TextNoSuch)
            /\ loc' = [loc EXCEPT ![h].rets = Append(@, err), ![h].messages = list]
       ELSE IF messageIndex >= Len(list)
       THEN \* messages[messageIndex]: index out of range, the handler panics
            \* and net/http drops the connection without a response
            /\ pc' = [pc EXCEPT ![h] = "panic"]
            /\ loc' = [loc EXCEPT ![h].rets = Append(@, err), ![h].messages = list]
            /\ UNCHANGED resp
       ELSE /\ pc' = [pc EXCEPT ![h] = "GetMessage"]
            /\ loc' = [loc EXCEPT
                         ![h].rets = Append(@, err),
                         ![h].messages = list,
                         ![h].messageID = list[messageIndex + 1].ID,
                         ![h].calls = Append(@, "GetMessage")]
            /\ UNCHANGED resp
    /\ UNCHANGED <<msgChan, ticker, enqLog, clock, req, marks>>
    /\ UNCHANGED workerVars

\* Variant of WebhookGetMessage that answers "no such message" on an error.
WebhookGetMessageHidesErr(h, err) ==
    /\ pc[h] = "GetMessage"
    /\ IF err # ErrNil
       THEN Reply(h, StatusOK, TextNoSuch)
       ELSE Reply(h, StatusOK, TextMessage(StoredMessage(loc[h].messageID)))
    /\ loc' = [loc EXCEPT ![h].rets = Append(@, err)]
    /\ UNCHANGED <<msgChan, ticker, enqLog, clock, req, marks>>
    /\ UNCHANGED workerVars

\* GetMessage returns.
WebhookGetMessage(h, err) ==
    /\ pc[h] = "GetMessage"
    /\ IF err # ErrNil
       THEN Reply(h, StatusInternalServerError, NoText)
       ELSE Reply(h, StatusOK, TextMessage(StoredMessage(loc[h].messageID)))
    /\ loc' = [loc EXCEPT ![h].rets = Append(@, err)]
    /\ UNCHANGED <<msgChan, ticker, enqLog, clock, req, marks>>
    /\ UNCHANGED workerVars

\* Variant of WebhookRegisterUser that treats a conflict like any other error.
WebhookRegisterUserConflictFails(h, err) ==
    /\ pc[h] = "RegisterUser"
    /\ LET username == ParseRegisterCommand(req[h].command) IN
       IF err # ErrNil
       THEN Reply(h, StatusInternalServerError, NoText)
       ELSE Reply(h, StatusOK, TextRegistered(username))
    /\ loc' = [loc EXCEPT ![h].rets = Append(@, err)]
    /\ UNCHANGED <<msgChan, ticker, enqLog, clock, req, marks>>
    /\ UNCHANGED workerVars

\* RegisterUser returns.
WebhookRegisterUser(h, err) ==
    /\ pc[h] = "RegisterUser"
    /\ LET username == ParseRegisterCommand(req[h].command) IN
       IF err # ErrNil /\ ~ErrorsIs(err, ErrConflict)
       THEN Reply(h, StatusInternalServerError, NoText)
       ELSE IF ErrorsIs(err, ErrConflict)
       THEN Reply(h, StatusOK, TextTaken)
       ELSE Reply(h, StatusOK, TextRegistered(username))
    /\ loc' = [loc EXCEPT ![h].rets = Append(@, err)]
    /\ UNCHANGED <<msgChan, ticker, enqLog, clock, req, marks>>
    /\ UNCHANGED workerVars

\* Variant of WebhookListMessagesDefault that greets in UTC when the timezone
\* does not load.
WebhookListMessagesDefaultAnyZone(h, list, err) ==
    /\ pc[h] = "ListMessagesDefault"
    /\ LET text == IF Len(list) > 0 THEN TextCount(Len(list)) ELSE TextNoNew IN
       IF err # ErrNil
       THEN /\ Reply(h, StatusInternalServerError, NoText)
            /\ loc' = [loc EXCEPT ![h].rets = Append(@, err)]
       ELSE /\ loc' = [loc EXCEPT ![h].rets = Append(@, err), ![h].messages = list]
            /\ IF req[h].new
               THEN Reply(h, StatusOK, TextGreeting("", text))
               ELSE Reply(h, StatusOK, text)
    /\ UNCHANGED <<msgChan, ticker, enqLog, clock, req, marks>>
    /\ UNCHANGED workerVars

\* Variant of WebhookListMessagesDefault that counts from the second message.
WebhookListMessagesDefaultOffByOne(h, list, err) ==
    /\ pc[h] = "ListMessagesDefault"
    /\ LET text == IF Len(list) > 1 THEN TextCount(Len(list)) ELSE TextNoNew IN
       IF err # ErrNil
       THEN /\ Reply(h, StatusInternalServerError, NoText)
            /\ loc' = [loc EXCEPT ![h].rets = Append(@, err)]
       ELSE /\ loc' = [loc EXCEPT ![h].rets = Append(@, err), ![h].messages = list]
            /\ IF req[h].new
               THEN IF ~LoadLocationOK(req[h].timezone)
                    THEN Reply(h, StatusBadRequest, NoText)
                    ELSE Reply(h, StatusOK, TextGreeting(req[h].timezone, text))
               ELSE Reply(h, StatusOK, text)
    /\ UNCHANGED <<msgChan, ticker, enqLog, clock, req, marks>>
    /\ UNCHANGED workerVars

\* ListMessages of the default branch returns.
WebhookListMessagesDefault(h, list, err) ==
    /\ pc[h] = "ListMessagesDefault"
    /\ LET text == IF Len(list) > 0 THEN TextCount(Len(list)) ELSE TextNoNew IN
       IF err # ErrNil
       THEN /\ Reply(h, StatusInternalServerError, NoText)
            /\ loc' = [loc EXCEPT ![h].rets = Append(@, err)]
       ELSE /\ loc' = [loc EXCEPT ![h].rets = Append(@, err), ![h].messages = list]
            /\ IF req[h].new
               THEN IF ~LoadLocationOK(req[h].timezone)
                    THEN Reply(h, StatusBadRequest, NoText)
                    ELSE Reply(h, StatusOK, TextGreeting(req[h].timezone, text))
               ELSE Reply(h, StatusOK, text)
    /\ UNCHANGED <<msgChan, ticker, enqLog, clock, req, marks>>
    /\ UNCHANGED workerVars

\* ------------------------------------------------------ flushMessages
\* The ticker fires: ticker.C holds one firing, a second one is dropped.
TimerFire ==
    /\ ticker' = 1
    /\ UNCHANGED <<msgChan, enqLog, clock, marks>>
    /\ UNCHANGED workerVars
    /\ UNCHANGED handlerVars

\* Variant of FlushReceive for a timer made anew on every turn of the loop:
\* receiving a message discards the firing that was waiting.
FlushReceiveResetsTimer ==
    /\ wpc = "select"
    /\ msgChan # <<>>
    /\ messages' = Append(messages, Head(msgChan))
    /\ msgChan' = Tail(msgChan)
    /\ ticker' = 0
    /\ marks' = [marks EXCEPT !.recvCount = @ + 1, !.last = "receive"]
    /\ UNCHANGED <<wpc, saveArg, saveRes, saved, enqLog, clock>>
    /\ UNCHANGED handlerVars

\* Variant of FlushReceive that also runs while SaveMessages is in flight.
FlushReceiveAnytime ==
    /\ msgChan # <<>>
    /\ messages' = Append(messages, Head(msgChan))
    /\ msgChan' = Tail(msgChan)
    /\ marks' = [marks EXCEPT !.recvCount = @ + 1, !.last = "receive"]
    /\ UNCHANGED <<ticker, wpc, saveArg, saveRes, saved, enqLog, clock>>
    /\ UNCHANGED handlerVars

\* Variant of FlushReceive that puts the received message in front.
FlushReceivePrepend ==
    /\ wpc = "select"
    /\ msgChan # <<>>
    /\ messages' = <<Head(msgChan)>> \o messages
    /\ msgChan' = Tail(msgChan)
    /\ marks' = [marks EXCEPT !.recvCount = @ + 1, !.last = "receive"]
    /\ UNCHANGED <<ticker, wpc, saveArg, saveRes, saved, enqLog, clock>>
    /\ UNCHANGED handlerVars

\* case msg := <-a.msgChan
FlushReceive ==
    /\ wpc = "select"
    /\ msgChan # <<>>
    /\ messages' = Append(messages, Head(msgChan))
    /\ msgChan' = Tail(msgChan)
    /\ marks' = [marks EXCEPT !.recvCount = @ + 1, !.last = "receive"]
    /\ UNCHANGED <<ticker, wpc, saveArg, saveRes, saved, enqLog, clock>>
    /\ UNCHANGED handlerVars

\* Variant of FlushTick that waits until no handler is inside a store call.
FlushTickStoreLock ==
    /\ \A h \in Handlers :
            pc[h] \notin {"FindRecipient", "ListMessages", "GetMessage",
                          "RegisterUser", "ListMessagesDefault"}
    /\ wpc = "select"
    /\ ticker = 1
    /\ ticker' = 0
    /\ IF Len(messages) = 0
       THEN /\ marks' = [marks EXCEPT !.firedAt = Len(enqLog),
                                      !.recvAtFire = marks.recvCount,
                                      !.last = "skip"]
            /\ UNCHANGED <<wpc, saveArg, saveRes>>
       ELSE /\ wpc' = "saving"
            /\ saveArg' = messages
            /\ saveRes' = "inflight"
            /\ marks' = [marks EXCEPT !.firedAt = Len(enqLog),
                                      !.recvAtFire = marks.recvCount,
                                      !.flushAt = Len(enqLog),
                                      !.prev = saveRes, !.last = "save"]
    /\ UNCHANGED <<msgChan, messages, saved, enqLog, clock>>
    /\ UNCHANGED handlerVars

\* Variant of FlushTick without the check for an empty slice.
FlushTickNoSkip ==
    /\ wpc = "select"
    /\ ticker = 1
    /\ ticker' = 0
    /\ wpc' = "saving"
    /\ saveArg' = messages
    /\ saveRes' = "inflight"
    /\ marks' = [marks EXCEPT !.firedAt = Len(enqLog),
                              !.recvAtFire = marks.recvCount,
                              !.flushAt = Len(enqLog),
                              !.prev = saveRes, !.last = "save"]
    /\ UNCHANGED <<msgChan, messages, saved, enqLog, clock>>
    /\ UNCHANGED handlerVars

\* Variant of FlushTick that writes the oldest message only.
FlushTickPartial ==
    /\ wpc = "select"
    /\ ticker = 1
    /\ ticker' = 0
    /\ IF Len(messages) = 0
       THEN /\ marks' = [marks EXCEPT !.firedAt = Len(enqLog),
                                      !.recvAtFire = marks.recvCount,
                                      !.last = "skip"]
            /\ UNCHANGED <<wpc, saveArg, saveRes>>
       ELSE /\ wpc' = "saving"
            /\ saveArg' = <<Head(messages)>>
            /\ saveRes' = "inflight"
            /\ marks' = [marks EXCEPT !.firedAt = Len(enqLog),
                                      !.recvAtFire = marks.recvCount,
                                      !.flushAt = Len(enqLog),
                                      !.prev = saveRes, !.last = "save"]
    /\ UNCHANGED <<msgChan, messages, saved, enqLog, clock>>
    /\ UNCHANGED handlerVars

\* case <-ticker.C, up to the call of SaveMessages
FlushTick ==
    /\ wpc = "select"
    /\ ticker = 1
    /\ ticker' = 0
    /\ IF Len(messages) = 0
       THEN /\ marks' = [marks EXCEPT !.firedAt = Len(enqLog),
                                      !.recvAtFire = marks.recvCount,
                                      !.last = "skip"]
            /\ UNCHANGED <<wpc, saveArg, saveRes>>
       ELSE /\ wpc' = "saving"
            /\ saveArg' = messages
            /\ saveRes' = "inflight"
            /\ marks' = [marks EXCEPT !.firedAt = Len(enqLog),
                                      !.recvAtFire = marks.recvCount,
                                      !.flushAt = Len(enqLog),
                                      !.prev = saveRes, !.last = "save"]
    /\ UNCHANGED <<msgChan, messages, saved, enqLog, clock>>
    /\ UNCHANGED handlerVars

\* Variant of FlushSaveReturn that puts the oldest message back into msgChan
\* after a failed write.
FlushSaveReturnRequeue(err) ==
    /\ wpc = "saving"
    /\ wpc' = "select"
    /\ IF err # ErrNil
       THEN /\ saveRes' = "err"
            /\ marks' = [marks EXCEPT !.last = "failed"]
            /\ msgChan' = IF Len(msgChan) < ChanCap
                          THEN Append(msgChan, Head(saveArg))
                          ELSE msgChan
            /\ UNCHANGED <<messages, saved>>
       ELSE /\ saveRes' = "ok"
            /\ messages' = <<>>
            /\ saved' = saved \o saveArg
            /\ marks' = [marks EXCEPT !.okAt = marks.recvCount, !.last = "cleared"]
            /\ UNCHANGED msgChan
    /\ UNCHANGED <<ticker, saveArg, enqLog, clock>>
    /\ UNCHANGED handlerVars

\* Variant of FlushSaveReturn that clears the slice after a failed write too.
FlushSaveReturnDropOnFail(err) ==
    /\ wpc = "saving"
    /\ wpc' = "select"
    /\ messages' = <<>>
    /\ IF err # ErrNil
       THEN /\ saveRes' = "err"
            /\ marks' = [marks EXCEPT !.last = "failed"]
            /\ UNCHANGED saved
       ELSE /\ saveRes' = "ok"
            /\ saved' = saved \o saveArg
            /\ marks' = [marks EXCEPT !.okAt = marks.recvCount, !.last = "cleared"]
    /\ UNCHANGED <<msgChan, ticker, saveArg, enqLog, clock>>
    /\ UNCHANGED handlerVars

\* Variant of FlushSaveReturn that keeps the slice after a successful write.
FlushSaveReturnNoClear(err) ==
    /\ wpc = "saving"
    /\ wpc' = "select"
    /\ IF err # ErrNil
       THEN /\ saveRes' = "err"
            /\ marks' = [marks EXCEPT !.last = "failed"]
            /\ UNCHANGED saved
       ELSE /\ saveRes' = "ok"
            /\ saved' = saved \o saveArg
            /\ marks' = [marks EXCEPT !.okAt = marks.recvCount, !.last = "cleared"]
    /\ UNCHANGED <<msgChan, ticker, messages, saveArg, enqLog, clock>>
    /\ UNCHANGED handlerVars

\* SaveMessages returns.
FlushSaveReturn(err) ==
    /\ wpc = "saving"
    /\ wpc' = "select"
    /\ IF err # ErrNil
       THEN /\ saveRes' = "err"
            /\ marks' = [marks EXCEPT !.last = "failed"]
            /\ UNCHANGED <<messages, saved>>
       ELSE /\ saveRes' = "ok"
            /\ messages' = <<>>
            /\ saved' = saved \o saveArg
            /\ marks' = [marks EXCEPT !.okAt = marks.recvCount, !.last = "cleared"]
    /\ UNCHANGED <<msgChan, ticker, saveArg, enqLog, clock>>
    /\ UNCHANGED handlerVars

Next ==
    \/ \E h \in Handlers, r \in Requests : WebhookStart(h, r)
    \/ \E h \in Handlers, id \in RecipientIDs, err \in {ErrNil, ErrOther} :
            WebhookFindRecipient(h, id, err)
    \/ \E h \in Handlers : WebhookSend(h)
    \/ \E h \in Handlers, list \in ListResults, err \in {ErrNil, ErrOther} :
            WebhookListMessages(h, list, err)
    \/ \E h \in Handlers, err \in {ErrNil, ErrOther} : WebhookGetMessage(h, err)
    \/ \E h \in Handlers, err \in {ErrNil, ErrConflict, ErrWrappedConflict, ErrOther} :
            WebhookRegisterUser(h, err)
    \/ \E h \in Handlers, list \in ListResults, err \in {ErrNil, ErrOther} :
            WebhookListMessagesDefault(h, list, err)
    \/ TimerFire
    \/ FlushReceive
    \/ FlushTick
    \/ \E err \in {ErrNil, ErrOther} : FlushSaveReturn(err)

Spec == Init /\ [][Next]_vars

\* Handlers interact with flushMessages through msgChan only, so the program
\* is examined in two parts: the requests that use msgChan, with flushMessages,
\* and the requests that do not.
\*
\* The program when every request is a send command: the handlers feed msgChan
\* and flushMessages drains it.
SendRequests ==
    {r \in Requests : r.type = TypeSimpleUtterance /\ HasPrefix(r.command, KwSend)}

NextSend ==
    \/ \E h \in Handlers, r \in SendRequests : WebhookStart(h, r)
    \/ \E h \in Handlers, id \in RecipientIDs, err \in {ErrNil, ErrOther} :
            WebhookFindRecipient(h, id, err)
    \/ \E h \in Handlers : WebhookSend(h)
    \/ TimerFire
    \/ FlushReceive
    \/ FlushTick
    \/ \E err \in {ErrNil, ErrOther} : FlushSaveReturn(err)

SpecSend == Init /\ [][NextSend]_vars

\* The program when no request is a send command: msgChan stays empty and the
\* handlers only read from and register with the store.
ReplyRequests == Requests \ SendRequests

NextReply ==
    \/ \E h \in Handlers, r \in ReplyRequests : WebhookStart(h, r)
    \/ \E h \in Handlers, list \in ListResults, err \in {ErrNil, ErrOther} :
            WebhookListMessages(h, list, err)
    \/ \E h \in Handlers, err \in {ErrNil, ErrOther} : WebhookGetMessage(h, err)
    \/ \E h \in Handlers, err \in {ErrNil, ErrConflict, ErrWrappedConflict, ErrOther} :
            WebhookRegisterUser(h, err)
    \/ \E h \in Handlers, list \in ListResults, err \in {ErrNil, ErrOther} :
            WebhookListMessagesDefault(h, list, err)

SpecReply == Init /\ [][NextReply]_vars

\* The program with one handler serving send commands and the other serving
\* the requests that do not use msgChan, next to flushMessages.
SendHandler == "h1"
ReplyHandler == "h2"

\* One request of each rejection and of each branch that does not send, the
\* read branch below, at and above the length of the list.
MixedRequests ==
    {r \in ReplyRequests :
        /\ r.user \in {"", "u1"}
        /\ r.method \in {"GET", "POST"}
        /\ r.type = TypeSimpleUtterance \/ r.command \in {<<>>, <<KwSend, "bob", "hi">>}
        /\ ~r.new
        /\ HasPrefix(r.command, KwRead) => ParseReadCommand(r.command) <= 1}

NextMixed ==
    \/ \E r \in SendRequests : WebhookStart(SendHandler, r)
    \/ \E r \in MixedRequests : WebhookStart(ReplyHandler, r)
    \/ \E h \in Handlers, id \in RecipientIDs, err \in {ErrNil, ErrOther} :
            WebhookFindRecipient(h, id, err)
    \/ \E h \in Handlers : WebhookSend(h)
    \/ \E h \in Handlers, list \in ListResults, err \in {ErrNil, ErrOther} :
            WebhookListMessages(h, list, err)
    \/ \E h \in Handlers, err \in {ErrNil, ErrOther} : WebhookGetMessage(h, err)
    \/ \E h \in Handlers, err \in {ErrNil, ErrConflict, ErrWrappedConflict, ErrOther} :
            WebhookRegisterUser(h, err)
    \/ \E h \in Handlers, list \in ListResults, err \in {ErrNil, ErrOther} :
            WebhookListMessagesDefault(h, list, err)
    \/ TimerFire
    \/ FlushReceive
    \/ FlushTick
    \/ \E err \in {ErrNil, ErrOther} : FlushSaveReturn(err)

SpecMixed == Init /\ [][NextMixed]_vars

\* The program with one handler serving send commands, and the scheduling
\* flushMessages can rely on: the ticker keeps firing, a select with a ready
\* case that is ready again and again takes it (Go picks among the ready cases
\* at random), a SaveMessages call returns, and it does not fail forever.
NextLive ==
    \/ \E r \in SendRequests : WebhookStart(SendHandler, r)
    \/ \E id \in RecipientIDs, err \in {ErrNil, ErrOther} :
            WebhookFindRecipient(SendHandler, id, err)
    \/ WebhookSend(SendHandler)
    \/ TimerFire
    \/ FlushReceive
    \/ FlushTick
    \/ \E err \in {ErrNil, ErrOther} : FlushSaveReturn(err)

Fairness ==
    /\ WF_vars(TimerFire)
    /\ SF_vars(FlushReceive)
    /\ SF_vars(FlushTick)
    /\ WF_vars(\E err \in {ErrNil, ErrOther} : FlushSaveReturn(err))
    /\ SF_vars(FlushSaveReturn(ErrNil))

SpecLive == Init /\ [][NextLive]_vars /\ Fairness

\* ------------------------------------------------------------ properties
IsPrefix(s, t) == Len(s) <= Len(t) /\ SubSeq(t, 1, Len(s)) = s

Range(s) == {s[i] : i \in 1 .. Len(s)}

\* batch holds every message of part, in the order of part
ContainsInOrder(batch, part) ==
    SelectSeq(batch, LAMBDA m : m \in Range(part)) = part

\* Steps of flushMessages, as seen on the variables.
TickHandled == wpc = "select" /\ ticker = 1 /\ ticker' = 0
SaveCalled == wpc = "select" /\ wpc' = "saving" /\ saveRes' = "inflight"
SaveFailed == wpc = "saving" /\ wpc' = "select" /\ saveRes' = "err"
SaveSucceeded == wpc = "saving" /\ wpc' = "select" /\ saveRes' = "ok"
NoSaveCall == wpc' = "select" /\ saveArg' = saveArg /\ saveRes' = saveRes

\* Messages that entered msgChan since the last firing flushMessages handled.
EnqueuedSinceFiring == SubSeq(enqLog, marks.firedAt + 1, Len(enqLog))
\* Messages flushMessages received since the last firing it handled.
ReceivedSinceFiring == SubSeq(enqLog, marks.recvAtFire + 1, marks.recvCount)

\* C1: a failed SaveMessages call leaves the pending batch as it was, and the
\* argument of the next SaveMessages call starts with the failed batch.
C1_FailedWriteKeepsBatch ==
    [][/\ SaveFailed => messages' = messages /\ messages' = saveArg
       /\ (SaveCalled /\ saveRes = "err") =>
            /\ IsPrefix(saveArg, saveArg')
            /\ saveArg' = saveArg \o SubSeq(enqLog, Len(saved) + Len(saveArg) + 1,
                                            marks.recvCount)
      ]_vars

\* C1 witness: a retry is in flight after a failed write, and it carries a
\* message received after the failure.
C1_Witness ==
    /\ saveRes = "inflight"
    /\ marks.prev = "err"
    /\ Len(saveArg) >= 2
    /\ marks.last = "save"

\* C2 as stated: the firing handled after N >= 1 messages entered msgChan
\* starts one write that holds all of them in enqueue order.
C2_Original ==
    [][(TickHandled /\ Len(EnqueuedSinceFiring) >= 1) =>
            SaveCalled /\ ContainsInOrder(saveArg', EnqueuedSinceFiring)]_vars

\* C2 amended: the firing handled after flushMessages received N >= 1 messages
\* starts exactly one write, of the whole pending batch, which holds all N in
\* receive order; a message still in msgChan is not part of it.
C2_ReceivedAreWritten ==
    [][(TickHandled /\ Len(ReceivedSinceFiring) >= 1) =>
            /\ SaveCalled
            /\ saveArg' = messages
            /\ ContainsInOrder(saveArg', ReceivedSinceFiring)
            /\ Range(saveArg') \cap Range(msgChan) = {}]_vars

\* C2 witness: a write in flight that holds two messages received since the
\* firing before, while a third message enqueued before the firing waits.
C2_Witness ==
    /\ saveRes = "inflight"
    /\ marks.last = "save"
    /\ Len(saveArg) >= 2
    /\ Len(msgChan) >= 1
    /\ marks.firedAt = Len(enqLog)

\* C3: the pending batch is in the order the messages entered msgChan, a write
\* passes the whole batch, and the successful writes concatenated are a prefix
\* of the messages in the order they entered msgChan.
C3_FifoOrder ==
    /\ IsPrefix(saved, enqLog)
    /\ messages = SubSeq(enqLog, Len(saved) + 1, Len(saved) + Len(messages))
    /\ saveRes = "inflight" => saveArg = messages
    /\ saveRes = "ok" =>
            SubSeq(saved, Len(saved) - Len(saveArg) + 1, Len(saved)) = saveArg

\* C3 witness: two writes succeeded, the second of two messages, and a later
\* message is pending.
C3_Witness ==
    /\ Len(saved) >= 3
    /\ saveRes = "ok"
    /\ Len(saveArg) = 2
    /\ Len(messages) >= 1

\* C4: the pending batch changes only by appending the message received from
\* msgChan or by becoming empty when SaveMessages returned no error, and it
\* becomes empty whenever SaveMessages returned no error.
C4_BatchTransitions ==
    [][/\ messages' # messages =>
            \/ /\ msgChan # <<>>
               /\ messages' = Append(messages, Head(msgChan))
               /\ msgChan' = Tail(msgChan)
            \/ SaveSucceeded /\ messages' = <<>>
       /\ SaveSucceeded => messages' = <<>>
       /\ (messages # <<>> /\ messages' = <<>>) => SaveSucceeded
      ]_vars

\* C4 witness: the batch was just cleared after a successful write.
C4_Witness ==
    /\ marks.last = "cleared"
    /\ messages = <<>>
    /\ saveRes = "ok"
    /\ Len(saved) >= 1

\* C5: a firing handled with an empty pending batch calls nothing and leaves
\* the batch empty, and SaveMessages is never called with zero messages.
C5_EmptyBatchNoCall ==
    /\ [][(TickHandled /\ messages = <<>>) => NoSaveCall /\ messages' = <<>>]_vars
    /\ [](saveRes = "inflight" => Len(saveArg) >= 1)

\* C5 witness: flushMessages has just skipped a firing with an empty batch.
C5_Witness ==
    /\ marks.last = "skip"
    /\ messages = <<>>
    /\ wpc = "select"

\* C6 as stated: no message entered msgChan since the last attempted write,
\* so the firing handled next calls no SaveMessages.
C6_Original ==
    [][(TickHandled /\ Len(enqLog) = marks.flushAt) => NoSaveCall]_vars

\* C6 amended: flushMessages received no message since the last successful
\* write (or since it started), so the firing handled next calls no
\* SaveMessages.
C6_NothingReceivedNoWrite ==
    [][(TickHandled /\ marks.recvCount = marks.okAt) => NoSaveCall]_vars

\* C6 witness: a firing was skipped after an earlier successful write.
C6_Witness ==
    /\ marks.last = "skip"
    /\ Len(saved) >= 1
    /\ marks.recvCount = marks.okAt

\* The request of h passed the method, decoding and type checks.
Accepted(h) ==
    /\ req[h].method = "POST"
    /\ req[h].decodes
    /\ req[h].type = TypeSimpleUtterance

IsSend(h) == Accepted(h) /\ HasPrefix(req[h].command, KwSend)
IsRead(h) == Accepted(h) /\ HasPrefix(req[h].command, KwRead)

\* FindRecipient returned an identifier / an error to the send request of h.
Resolved(h) ==
    IsSend(h) /\ loc[h].calls = <<"FindRecipient">> /\ loc[h].rets = <<ErrNil>>
FindFailed(h) ==
    /\ IsSend(h)
    /\ loc[h].calls = <<"FindRecipient">>
    /\ Len(loc[h].rets) = 1
    /\ loc[h].rets[1] # ErrNil

Occurrences(m, s) == Cardinality({i \in 1 .. Len(s) : s[i] = m})

\* C7: a send request whose recipient resolved enqueues nothing before its
\* channel send and exactly one message by it, with sender the caller,
\* recipient the identifier FindRecipient returned, payload the parsed text and
\* no identifier; it replies OK with the confirmation text, and the outcome of
\* a SaveMessages call does not change that reply.
C7_SendEnqueuesOne ==
    /\ [](\A h \in Handlers :
            /\ (Resolved(h) /\ pc[h] = "send") =>
                    loc[h].sent = <<>> /\ loc[h].built[1] \notin Range(enqLog)
            /\ (Resolved(h) /\ pc[h] = "done") =>
                    /\ resp[h] = Response(StatusOK, TextSent)
                    /\ Len(loc[h].sent) = 1
                    /\ loc[h].sent[1].ID = 0
                    /\ loc[h].sent[1].Sender = req[h].user
                    /\ loc[h].sent[1].Recepient = loc[h].recipientID
                    /\ loc[h].sent[1].Payload = ParseSendCommand(req[h].command)[2]
                    /\ Occurrences(loc[h].sent[1], enqLog) = 1)
    /\ [][\A h \in Handlers :
            (Resolved(h) /\ pc[h] = "done" /\ (SaveFailed \/ SaveSucceeded)) =>
                pc'[h] = "done" /\ resp'[h] = resp[h]]_vars

\* C7 witness: a send request was answered and the write of its message then
\* failed.
C7_Witness ==
    \E h \in Handlers :
        /\ Resolved(h)
        /\ pc[h] = "done"
        /\ resp[h].status = StatusOK
        /\ saveRes = "err"
        /\ loc[h].sent[1] \in Range(saveArg)

\* C8: a send request whose FindRecipient failed ends with internal error and
\* no text, and neither builds nor enqueues a message.
C8_NoPartialSend ==
    /\ [](\A h \in Handlers :
            FindFailed(h) =>
                /\ pc[h] = "done"
                /\ resp[h] = Response(StatusInternalServerError, NoText)
                /\ loc[h].built = <<>>
                /\ loc[h].sent = <<>>)
    /\ [][\A h \in Handlers :
            (pc[h] = "FindRecipient" /\ pc'[h] = "done") =>
                msgChan' = msgChan /\ enqLog' = enqLog]_vars

\* C8 witness: a send request failed in FindRecipient while msgChan held a
\* message of another request.
C8_Witness ==
    \E h \in Handlers :
        /\ FindFailed(h)
        /\ pc[h] = "done"
        /\ Len(msgChan) >= 1

\* C9 as stated: a send request whose recipient resolved can always complete
\* its channel send at once.
C9_Original ==
    \A h \in Handlers : pc[h] = "send" => ENABLED WebhookSend(h)

\* C9 amended: the channel send can complete at once exactly while msgChan
\* holds fewer messages than its capacity, wherever flushMessages is; when
\* msgChan is full the request waits for flushMessages to receive.
C9_SendBlocksOnlyWhenFull ==
    \A h \in Handlers :
        pc[h] = "send" =>
            /\ Len(msgChan) < ChanCap => ENABLED WebhookSend(h)
            /\ Len(msgChan) >= ChanCap =>
                    /\ ~ENABLED WebhookSend(h)
                    /\ wpc = "select" => ENABLED FlushReceive

\* C9 witness: a request is about to send while flushMessages is inside
\* SaveMessages and msgChan has one free slot left.
C9_Witness ==
    \E h \in Handlers :
        /\ pc[h] = "send"
        /\ wpc = "saving"
        /\ Len(msgChan) = ChanCap - 1

\* C10: a read request whose ListMessages returned K messages, with index i:
\* for i < K it calls GetMessage with the identifier of the i-th message and,
\* when that succeeds, replies OK with the rendered message; for i >= K it
\* replies OK with the "no such message" text and does not call GetMessage.
C10_ReadBoundary ==
    \A h \in Handlers :
        (IsRead(h) /\ Len(loc[h].rets) >= 1 /\ loc[h].rets[1] = ErrNil) =>
            LET K == Len(loc[h].messages)
                i == ParseReadCommand(req[h].command)
            IN  IF i < K
                THEN /\ loc[h].calls = <<"ListMessages", "GetMessage">>
                     /\ loc[h].messageID = loc[h].messages[i + 1].ID
                     /\ (pc[h] = "done" /\ loc[h].rets = <<ErrNil, ErrNil>>) =>
                            resp[h] = Response(StatusOK,
                                               TextMessage(StoredMessage(loc[h].messageID)))
                ELSE /\ pc[h] = "done"
                     /\ resp[h] = Response(StatusOK, TextNoSuch)
                     /\ loc[h].calls = <<"ListMessages">>

IsRegister(h) == Accepted(h) /\ HasPrefix(req[h].command, KwRegister)
IsDefault(h) == Accepted(h) /\ FirstCall(req[h].command) = "ListMessagesDefault"

\* The status of a request that fails the method, decoding or type check.
RejectionStatus(r) ==
    IF r.method # "POST" THEN StatusMethodNotAllowed
    ELSE IF ~r.decodes THEN StatusInternalServerError
    ELSE StatusUnprocessableEntity

\* C11: a request with another method than POST gets 405, an undecodable POST
\* 500 and a POST of another type 422 whatever its command; such a request
\* calls no store operation, builds and enqueues no message, and its arrival
\* leaves msgChan as it was.
C11_RejectedBeforeStore ==
    /\ [](\A h \in Handlers :
            (pc[h] # "idle" /\ ~Accepted(h)) =>
                /\ pc[h] = "done"
                /\ resp[h] = Response(RejectionStatus(req[h]), NoText)
                /\ loc[h].calls = <<>>
                /\ loc[h].rets = <<>>
                /\ loc[h].built = <<>>
                /\ loc[h].sent = <<>>)
    /\ [][\A h \in Handlers :
            (req'[h] # req[h] /\ ~Accepted(h)') =>
                msgChan' = msgChan /\ enqLog' = enqLog]_vars

\* C11 witness: a POST of an unsupported type whose command is a send command
\* was rejected with 422 while msgChan held a message.
C11_Witness ==
    \E h \in Handlers :
        /\ pc[h] = "done"
        /\ req[h].method = "POST"
        /\ req[h].decodes
        /\ req[h].type # TypeSimpleUtterance
        /\ HasPrefix(req[h].command, KwSend)
        /\ resp[h].status = StatusUnprocessableEntity
        /\ Len(msgChan) >= 1

\* C12: a first-turn request of the default branch with an invalid timezone
\* ends with bad request and has called no store operation.
C12_TimezoneBeforeStore ==
    \A h \in Handlers :
        (IsDefault(h) /\ req[h].new /\ ~LoadLocationOK(req[h].timezone)
            /\ Finished(h)) =>
                /\ resp[h] = Response(StatusBadRequest, NoText)
                /\ loc[h].calls = <<>>

\* C12 amended: such a request has called ListMessages once and nothing else;
\* it ends with bad request when that call succeeded and with internal error
\* when it failed, and it enqueues nothing.
C12_TimezoneAfterList ==
    \A h \in Handlers :
        (IsDefault(h) /\ req[h].new /\ ~LoadLocationOK(req[h].timezone)
            /\ Finished(h)) =>
                /\ pc[h] = "done"
                /\ loc[h].calls = <<"ListMessages">>
                /\ Len(loc[h].rets) = 1
                /\ loc[h].rets[1] = ErrNil =>
                        resp[h] = Response(StatusBadRequest, NoText)
                /\ loc[h].rets[1] # ErrNil =>
                        resp[h] = Response(StatusInternalServerError, NoText)
                /\ loc[h].sent = <<>>

\* C12 witness: a first-turn request with an invalid timezone got bad request
\* after ListMessages returned a message.
C12_Witness ==
    \E h \in Handlers :
        /\ IsDefault(h)
        /\ req[h].new
        /\ ~LoadLocationOK(req[h].timezone)
        /\ pc[h] = "done"
        /\ loc[h].rets = <<ErrNil>>
        /\ Len(loc[h].messages) = 1
        /\ resp[h].status = StatusBadRequest

\* C13: a register request calls RegisterUser once; a conflict gives OK with
\* the "name already taken" text, any other error gives internal error with no
\* text, and success gives OK with the text that confirms the username.
C13_RegisterOutcomes ==
    \A h \in Handlers :
        (IsRegister(h) /\ pc[h] # "idle") =>
            /\ loc[h].calls = <<"RegisterUser">>
            /\ pc[h] \in {"RegisterUser", "done"}
            /\ pc[h] = "RegisterUser" => loc[h].rets = <<>>
            /\ pc[h] = "done" =>
                /\ Len(loc[h].rets) = 1
                /\ loc[h].rets[1] \in {ErrConflict, ErrWrappedConflict} =>
                        resp[h] = Response(StatusOK, TextTaken)
                /\ loc[h].rets[1] = ErrOther =>
                        resp[h] = Response(StatusInternalServerError, NoText)
                /\ loc[h].rets[1] = ErrNil =>
                        resp[h] = Response(StatusOK,
                                           TextRegistered(ParseRegisterCommand(req[h].command)))

\* C13 witness: a register request met a conflict and was answered OK.
C13_Witness ==
    \E h \in Handlers :
        /\ IsRegister(h)
        /\ pc[h] = "done"
        /\ loc[h].rets = <<ErrConflict>>
        /\ resp[h] = Response(StatusOK, TextTaken)

\* An error of a store operation other than the conflict.
GenericFailure(err) == err # ErrNil /\ err \notin {ErrConflict, ErrWrappedConflict}

\* C14: a generic failure of a store call is the last thing the request gets
\* from the store and ends it with internal error and no text; no store
\* operation is called twice within one request.
C14_FailureEndsRequest ==
    \A h \in Handlers :
        /\ Len(loc[h].rets) <= Len(loc[h].calls)
        /\ Len(loc[h].calls) <= Len(loc[h].rets) + 1
        /\ \A i, j \in 1 .. Len(loc[h].calls) :
                loc[h].calls[i] = loc[h].calls[j] => i = j
        /\ \A i \in 1 .. Len(loc[h].rets) :
                GenericFailure(loc[h].rets[i]) =>
                    /\ i = Len(loc[h].rets)
                    /\ Len(loc[h].calls) = i
                    /\ pc[h] = "done"
                    /\ resp[h] = Response(StatusInternalServerError, NoText)

\* C14 witness: GetMessage failed after ListMessages had succeeded.
C14_Witness ==
    \E h \in Handlers :
        /\ loc[h].calls = <<"ListMessages", "GetMessage">>
        /\ loc[h].rets = <<ErrNil, ErrOther>>
        /\ pc[h] = "done"
        /\ resp[h].status = StatusInternalServerError

\* The text of the default branch for a list of messages.
CountText(list) == IF Len(list) = 0 THEN TextNoNew ELSE TextCount(Len(list))

IsSuffix(s, t) ==
    Len(s) <= Len(t) /\ SubSeq(t, Len(t) - Len(s) + 1, Len(t)) = s

\* C18: a request of the default branch calls ListMessages once; when that
\* succeeds and the turn is not the first it replies OK with the "no new
\* messages" text exactly for an empty list and else with a text that embeds
\* the length; on a first turn with a timezone that loads it replies OK with
\* the greeting followed by that same text.
C18_DefaultReply ==
    \A h \in Handlers :
        (IsDefault(h) /\ pc[h] # "idle") =>
            /\ loc[h].calls = <<"ListMessages">>
            /\ (pc[h] = "done" /\ loc[h].rets = <<ErrNil>>) =>
                LET list == loc[h].messages IN
                /\ ~req[h].new =>
                    /\ resp[h] = Response(StatusOK, CountText(list))
                    /\ resp[h].text = TextNoNew <=> Len(list) = 0
                    /\ Len(list) > 0 => ToString(Len(list)) \in Range(resp[h].text)
                /\ (req[h].new /\ LoadLocationOK(req[h].timezone)) =>
                    /\ resp[h].status = StatusOK
                    /\ resp[h].text[1] = "Exact time"
                    /\ IsSuffix(CountText(list), resp[h].text)
                    /\ Len(resp[h].text) > Len(CountText(list))

\* C18 witness: the first turn of a session without a timezone, with one
\* message listed, was greeted and told of one message.
C18_Witness ==
    \E h \in Handlers :
        /\ IsDefault(h)
        /\ req[h].new
        /\ req[h].timezone = ""
        /\ pc[h] = "done"
        /\ loc[h].rets = <<ErrNil>>
        /\ Len(loc[h].messages) = 1
        /\ resp[h].status = StatusOK
        /\ IsSuffix(TextCount(1), resp[h].text)

\* Every message a handler can build.
MessageUniverse ==
    {Message(0, u, id, t, p) :
        u \in Senders, id \in RecipientIDs, t \in 1 .. MaxMsgs, p \in Payloads}

\* C15: under the fairness of SpecLive every message that entered msgChan is
\* eventually part of a successful SaveMessages call.
C15_EventuallySaved ==
    \A m \in MessageUniverse :
        (m \in Range(enqLog)) ~> (m \in Range(saved))

\* C15 witness: a write succeeded after the write before it had failed, and
\* every message that entered msgChan is saved.
C15_Witness ==
    /\ saveRes = "ok"
    /\ marks.prev = "err"
    /\ Len(enqLog) >= 2
    /\ saved = enqLog

\* The handler is inside a store call.
Stalled(h) ==
    pc[h] \in {"FindRecipient", "ListMessages", "GetMessage", "RegisterUser",
               "ListMessagesDefault"}

\* flushMessages can take the step that is due.
WorkerCanStep ==
    /\ (wpc = "select" /\ msgChan # <<>>) => ENABLED FlushReceive
    /\ (wpc = "select" /\ ticker = 1) => ENABLED FlushTick
    /\ wpc = "saving" => ENABLED (\E err \in {ErrNil, ErrOther} : FlushSaveReturn(err))

\* The request of g, or a new request in its place, can take its next step;
\* at the channel send with msgChan full, flushMessages can make room.
CanStep(g) ==
    /\ (pc[g] = "idle" \/ Finished(g)) =>
            ENABLED (\E r \in Requests : WebhookStart(g, r))
    /\ pc[g] = "FindRecipient" =>
            ENABLED (\E id \in RecipientIDs, err \in {ErrNil, ErrOther} :
                        WebhookFindRecipient(g, id, err))
    /\ pc[g] = "send" =>
            \/ ENABLED WebhookSend(g)
            \/ /\ Len(msgChan) >= ChanCap
               /\ \/ ENABLED FlushReceive
                  \/ ENABLED (\E err \in {ErrNil, ErrOther} : FlushSaveReturn(err))
    /\ pc[g] = "ListMessages" =>
            ENABLED (\E list \in ListResults, err \in {ErrNil, ErrOther} :
                        WebhookListMessages(g, list, err))
    /\ pc[g] = "GetMessage" =>
            ENABLED (\E err \in {ErrNil, ErrOther} : WebhookGetMessage(g, err))
    /\ pc[g] = "RegisterUser" =>
            ENABLED (\E err \in {ErrNil, ErrConflict, ErrOther} :
                        WebhookRegisterUser(g, err))
    /\ pc[g] = "ListMessagesDefault" =>
            ENABLED (\E list \in ListResults, err \in {ErrNil, ErrOther} :
                        WebhookListMessagesDefault(g, list, err))

\* C16: while a handler is inside a store call, every other handler can take
\* its next step and flushMessages can receive a queued message and handle a
\* firing.
C16_StallBlocksOnlyItself ==
    \A h \in Handlers :
        Stalled(h) =>
            /\ \A g \in Handlers \ {h} : CanStep(g)
            /\ WorkerCanStep

\* C16 witness: one handler is inside ListMessages while the other is about to
\* send and flushMessages has both a queued message and a firing to handle.
C16_Witness ==
    \E h, g \in Handlers :
        /\ pc[h] = "ListMessages"
        /\ pc[g] = "send"
        /\ wpc = "select"
        /\ msgChan # <<>>
        /\ ticker = 1

\* C17: msgChan grows only by the channel send of a send request whose
\* recipient resolved and shrinks only by the receive of flushMessages; a step
\* of a request of another branch, or of a rejected request, leaves it as it
\* was.
C17_OnlySendTouchesQueue ==
    [][/\ msgChan' # msgChan => Len(msgChan') # Len(msgChan)
       /\ Len(msgChan') > Len(msgChan) =>
            \E h \in Handlers :
                /\ Resolved(h)
                /\ pc[h] = "send"
                /\ pc'[h] = "done"
                /\ msgChan' = Append(msgChan, loc[h].built[1])
       /\ Len(msgChan') < Len(msgChan) =>
            /\ wpc = "select"
            /\ wpc' = "select"
            /\ msgChan' = Tail(msgChan)
            /\ messages' = Append(messages, Head(msgChan))
       /\ \A h \in Handlers :
            (<<pc[h], req[h], resp[h], loc[h]>>' # <<pc[h], req[h], resp[h], loc[h]>>
                /\ ~IsSend(h)') => msgChan' = msgChan
      ]_vars

\* C17 witness: a read request was answered while msgChan held a message and
\* flushMessages had received another.
C17_Witness ==
    \E h \in Handlers :
        /\ IsRead(h)
        /\ pc[h] = "done"
        /\ resp[h].status = StatusOK
        /\ Len(msgChan) >= 1
        /\ marks.recvCount >= 1

\* A queued message and a firing are both ready for the select.
BothReady == wpc = "select" /\ msgChan # <<>> /\ ticker = 1

\* C19: with a message and a firing both ready, receiving the message leaves
\* the firing ready and handling the firing leaves the message queued; a
\* message leaves msgChan only into the pending batch, a firing is consumed
\* only by the flush check, neither is lost while SaveMessages is in flight,
\* and back in the select each of them can be handled.
C19_NeitherDiscarded ==
    /\ []((wpc = "select" /\ msgChan # <<>>) => ENABLED FlushReceive)
    /\ []((wpc = "select" /\ ticker = 1) => ENABLED FlushTick)
    /\ [][/\ (BothReady /\ Len(msgChan') < Len(msgChan)) =>
                ticker' = 1 /\ wpc' = "select"
          /\ (BothReady /\ TickHandled) => msgChan' = msgChan
          /\ wpc = "saving" => IsPrefix(msgChan, msgChan') /\ ticker' >= ticker
          /\ Len(msgChan') < Len(msgChan) =>
                messages' = Append(messages, Head(msgChan))
          /\ (ticker = 1 /\ ticker' = 0) =>
                \/ messages = <<>> /\ NoSaveCall
                \/ messages # <<>> /\ SaveCalled /\ saveArg' = messages
         ]_vars

\* C19 witness: flushMessages has just received a message while a firing was
\* waiting, and the firing is still waiting.
C19_Witness ==
    /\ marks.last = "receive"
    /\ wpc = "select"
    /\ ticker = 1
    /\ Len(messages) >= 1

\* C20: the messages that entered msgChan are, in order, the saved ones, the
\* pending batch and the queued ones, each exactly once; a message a request
\* sent is among them; a successful write moves exactly its argument to the
\* saved ones and leaves msgChan as it was, and nothing leaves msgChan while
\* SaveMessages is in flight.
C20_Conservation ==
    /\ [](/\ saved \o messages \o msgChan = enqLog
          /\ \A i, j \in 1 .. Len(enqLog) : enqLog[i] = enqLog[j] => i = j
          /\ \A h \in Handlers : Range(loc[h].sent) \subseteq Range(enqLog))
    /\ [][/\ SaveSucceeded =>
                /\ msgChan' = msgChan
                /\ saved' = saved \o saveArg
                /\ messages' = <<>>
          /\ wpc = "saving" => IsPrefix(msgChan, msgChan')
         ]_vars

\* C20 witness: a write has just succeeded and a message that entered msgChan
\* while it was in flight is still queued.
C20_Witness ==
    /\ marks.last = "cleared"
    /\ saveRes = "ok"
    /\ Len(saved) >= 1
    /\ Len(msgChan) >= 1
    /\ Len(enqLog) > marks.flushAt

====
